---------------------------- MODULE Spec2Model ----------------------------
(***************************************************************************)
(* A model of the InfluxDB HTTP surface (httpd/handler.go) and of the      *)
(* batch decoding and normalisation of the influxdb package                *)
(* (BatchPoints.UnmarshalJSON, NormalizeBatchPoints).                      *)
(*                                                                         *)
(* Three specifications share the module:                                  *)
(*   Spec           the HTTP handler serving requests against a server     *)
(*   SpecNormalize  NormalizeBatchPoints applied to bounded batches        *)
(*   SpecUnmarshal  BatchPoints.UnmarshalJSON applied to bounded bodies    *)
(***************************************************************************)
EXTENDS Integers, Sequences, FiniteSets, TLC

VARIABLES
    requireAuthentication,  \* Handler.requireAuthentication
    databases,              \* Server: names of the databases that exist
    users,                  \* Server: user name -> [admin, write]
    dataNodes,              \* Server: registered data nodes, [id, url]
    nextID,                 \* Server: next data node id to assign
    replicas,               \* Broker: ids of the replicas created
    stored,                 \* Server: [database, point] written by WriteSeries
    req,                    \* the request being served (NoReq when idle)
    resp,                   \* what serving req produced (NoResp when idle)
    prev,                   \* the server as it was when req arrived
    nbp,                    \* SpecNormalize: the batch handed to NormalizeBatchPoints
    npoints,                \* SpecNormalize: the points it returned
    npc,                    \* SpecNormalize: "in" before the call, "out" after
    ubody,                  \* SpecUnmarshal: the JSON body
    urecv,                  \* SpecUnmarshal: the receiver *BatchPoints before the call
    ubp,                    \* SpecUnmarshal: the receiver after the call
    uerr,                   \* SpecUnmarshal: the error returned ("" for nil)
    upc                     \* SpecUnmarshal: "in" before the call, "out" after

serverVars == <<databases, users, dataNodes, nextID, replicas, stored>>
httpVars == <<requireAuthentication, databases, users, dataNodes, nextID,
              replicas, stored, req, resp, prev>>
normVars == <<nbp, npoints, npc>>
unmVars == <<ubody, urecv, ubp, uerr, upc>>
vars == <<requireAuthentication, databases, users, dataNodes, nextID,
          replicas, stored, req, resp, prev, nbp, npoints, npc,
          ubody, urecv, ubp, uerr, upc>>

---------------------------------------------------------------------------
(* Bounds of the model.                                                    *)

\* Data node ids are handed out while nextID <= MaxNodeID.
MaxNodeID == 2
\* A batch carries at most MaxPoints points.
MaxPoints == 2

---------------------------------------------------------------------------
(* time.Time.  An instant is its Unix seconds and nanoseconds; the zero    *)
(* time.Time (year 1) is a value of its own, different from Unix 0.        *)

ZeroTime == [zero |-> TRUE, sec |-> 0, nsec |-> 0]

Unix(s, n) == [zero |-> FALSE, sec |-> s, nsec |-> n]

IsZero(t) == t.zero

\* client.EpochToTime: an integer epoch at a precision as an instant.
\* "s" is N seconds, that is N * 10^9 nanoseconds; no precision is
\* nanoseconds; the error return is taken for an unknown precision.
EpochToTime(epoch, precision) ==
    CASE precision = "h"  -> [err |-> "", t |-> Unix(epoch * 3600, 0)]
      [] precision = "m"  -> [err |-> "", t |-> Unix(epoch * 60, 0)]
      [] precision = "s"  -> [err |-> "", t |-> Unix(epoch, 0)]
      [] precision = "ms" -> [err |-> "", t |-> Unix(epoch \div 1000, (epoch % 1000) * 1000000)]
      [] precision = "u"  -> [err |-> "", t |-> Unix(epoch \div 1000000, (epoch % 1000000) * 1000)]
      [] precision \in {"n", ""} ->
             [err |-> "", t |-> Unix(epoch \div 1000000000, epoch % 1000000000)]
      [] OTHER -> [err |-> "unknown precision", t |-> ZeroTime]

\* client.SetPrecision: an instant cut to a precision.
SetPrecision(t, precision) ==
    IF IsZero(t) THEN t
    ELSE CASE precision = "h"  -> Unix(t.sec - (t.sec % 3600), 0)
           [] precision = "m"  -> Unix(t.sec - (t.sec % 60), 0)
           [] precision = "s"  -> Unix(t.sec, 0)
           [] precision = "ms" -> Unix(t.sec, t.nsec - (t.nsec % 1000000))
           [] precision = "u"  -> Unix(t.sec, t.nsec - (t.nsec % 1000))
           [] OTHER -> t

---------------------------------------------------------------------------
(* Go maps of tags: a function on the keys present.  m[k] of a key that is *)
(* absent (or of a nil map) is the empty string.                           *)

EmptyMap == [k \in {} |-> ""]

MapGet(m, k) == IF k \in DOMAIN m THEN m[k] ELSE ""

MapSet(m, k, v) == [x \in (DOMAIN m) \cup {k} |-> IF x = k THEN v ELSE m[x]]

\* The keys of a finite set in some iteration order (Go's order is unspecified;
\* the result of the loops modelled here does not depend on it).
RECURSIVE SetToSeq(_)
SetToSeq(S) ==
    IF S = {} THEN <<>>
    ELSE LET x == CHOOSE y \in S : TRUE IN <<x>> \o SetToSeq(S \ {x})

---------------------------------------------------------------------------
(* BatchPoints and its decoding.                                           *)

\* The zero value of BatchPoints.
ZeroBatch ==
    [Points |-> <<>>, Database |-> "", RetentionPolicy |-> "",
     Tags |-> EmptyMap, Timestamp |-> ZeroTime, Precision |-> ""]

\* json.Unmarshal(b, &epoch): the body decodes into the struct whose
\* Timestamp is *int64 when it is a JSON object and its "timestamp" is
\* absent or a number.
DecodesAsEpoch(b) == b.form = "object" /\ b.ts.kind \in {"absent", "int"}

\* json.Unmarshal(b, &normal): the body decodes into the struct whose
\* Timestamp is time.Time when it is a JSON object and its "timestamp" is
\* absent or an RFC 3339 string.
DecodesAsNormal(b) == b.form = "object" /\ b.ts.kind \in {"absent", "str"}

\* The fields both structs share, as decoded from the body.
DecodedFields(b, ts) ==
    [Points |-> b.points, Database |-> b.database,
     RetentionPolicy |-> b.retentionPolicy, Tags |-> b.tags,
     Timestamp |-> ts, Precision |-> b.precision]

\* A plausible slip: the fields are assigned before EpochToTime is checked,
\* so a failed decode leaves the receiver changed.
UnmarshalJSON_AssignsEarly(bp, b) ==
    LET conv == IF b.ts.kind = "int" THEN EpochToTime(b.ts.n, b.precision)
                ELSE [err |-> "", t |-> ZeroTime]
    IN IF DecodesAsEpoch(b)
       THEN [err |-> conv.err, bp |-> DecodedFields(b, conv.t)]
       ELSE IF DecodesAsNormal(b)
            THEN [err |-> "", bp |-> DecodedFields(b, SetPrecision(b.ts.t, b.precision))]
            ELSE [err |-> "json", bp |-> bp]

\* (*BatchPoints).UnmarshalJSON: the epoch form first, then the string form.
\* Returns the error ("" for nil) and the receiver afterwards.
UnmarshalJSON(bp, b) ==
    LET conv == IF b.ts.kind = "int" THEN EpochToTime(b.ts.n, b.precision)
                ELSE [err |-> "", t |-> ZeroTime]
        epochOK == DecodesAsEpoch(b) /\ conv.err = ""
    IN IF epochOK
       THEN [err |-> "", bp |-> DecodedFields(b, conv.t)]
       ELSE IF ~DecodesAsNormal(b)
            THEN [err |-> "json", bp |-> bp]
            ELSE [err |-> "",
                  bp |-> DecodedFields(b, SetPrecision(b.ts.t, b.precision))]

---------------------------------------------------------------------------
(* NormalizeBatchPoints.                                                   *)

\* The loop over bp.Tags of one point: a batch tag is copied where the
\* point's value for the key is the empty string.
RECURSIVE CopyTags(_, _, _)
CopyTags(ptags, btags, keys) ==
    IF keys = <<>> THEN ptags
    ELSE LET k == Head(keys)
             t == IF MapGet(ptags, k) = "" THEN MapSet(ptags, k, btags[k])
                  ELSE ptags
         IN CopyTags(t, btags, Tail(keys))

\* One iteration of the loop of NormalizeBatchPoints.
NormalizePoint(bp, p) ==
    LET ts1 == IF IsZero(p.Timestamp) THEN bp.Timestamp ELSE p.Timestamp
        prec == IF p.Precision = "" /\ bp.Precision # "" THEN bp.Precision
                ELSE p.Precision
        ts2 == SetPrecision(ts1, prec)
        tags == IF DOMAIN bp.Tags # {}
                THEN CopyTags(p.Tags, bp.Tags, SetToSeq(DOMAIN bp.Tags))
                ELSE p.Tags
    IN [Name |-> p.Name, Tags |-> tags, Timestamp |-> ts2, Values |-> p.Values]

\* NormalizeBatchPoints: one influxdb.Point per client.Point of the batch.
\* The error it returns is always nil.
NormalizeBatchPoints(bp) ==
    [i \in 1..Len(bp.Points) |-> NormalizePoint(bp, bp.Points[i])]

---------------------------------------------------------------------------
(* The server behind the handler (influxdb.Server and its broker client).  *)
(* A server s is the record of its catalog:                                *)
(*   [databases, users, dataNodes, nextID, replicas, stored].              *)

\* The nil *influxdb.User.
Nil == "<nil>"

UserNames == {"alice", "bob"}

\* The password each user was created with.
PasswordOf(name) == IF name = "alice" THEN "pa" ELSE "pb"

\* Server.DatabaseExists.
DatabaseExists(s, db) == db \in s.databases

\* Server.UserCount.
UserCount(s) == Cardinality(DOMAIN s.users)

\* Server.Authenticate: the user of that name, when the password matches.
Authenticate(s, username, password) ==
    IF username \in DOMAIN s.users /\ password = PasswordOf(username)
    THEN [err |-> "", user |-> username]
    ELSE [err |-> "invalid username or password", user |-> Nil]

\* User.Authorize for WritePrivilege: a cluster admin, or a user holding the
\* privilege on the database; the anonymous principal of the bootstrap
\* exception (no user exists yet) is admitted.
Authorize(s, user, db) ==
    \/ user = Nil
    \/ /\ user \in DOMAIN s.users
       /\ (s.users[user].admin \/ db \in s.users[user].write)

\* Validation of a batch by Server.WriteSeries: the first error, "" if none.
RECURSIVE ValidatePoints(_)
ValidatePoints(points) ==
    IF points = <<>> THEN ""
    ELSE IF Head(points).Name = "" THEN "measurement name required"
    ELSE IF Head(points).Values = {} THEN "values required"
    ELSE ValidatePoints(Tail(points))

\* Server.WriteSeries: the whole batch is stored, or none of it.
WriteSeries(s, db, points) ==
    LET e == ValidatePoints(points)
    IN IF e # "" THEN [err |-> e, srv |-> s]
       ELSE [err |-> "",
             srv |-> [s EXCEPT !.stored =
                         @ \cup {[database |-> db, point |-> points[i]] :
                                    i \in 1..Len(points)}]]

\* Server.DataNodeByURL: the nodes registered under the URL (at most one).
DataNodeByURL(s, url) == {n \in s.dataNodes : n.url = url}

\* Server.CreateDataNode: ids come from a counter and are never reused.
CreateDataNode(s, url) ==
    IF url = "" THEN [err |-> "data node url required", srv |-> s]
    ELSE IF DataNodeByURL(s, url) # {} THEN [err |-> "data node exists", srv |-> s]
    ELSE [err |-> "",
          srv |-> [s EXCEPT !.dataNodes = @ \cup {[id |-> s.nextID, url |-> url]},
                            !.nextID = @ + 1]]

\* Server.DeleteDataNode.
DeleteDataNode(s, id) ==
    IF \A n \in s.dataNodes : n.id # id
    THEN [err |-> "data node not found", srv |-> s]
    ELSE [err |-> "", srv |-> [s EXCEPT !.dataNodes = {n \in @ : n.id # id}]]

\* Client.CreateReplica on the broker; the broker decides whether it fails.
CreateReplica(s, id, brokerFail) ==
    IF brokerFail THEN [err |-> "broker unavailable", srv |-> s]
    ELSE [err |-> "", srv |-> [s EXCEPT !.replicas = @ \cup {id}]]

---------------------------------------------------------------------------
(* http.ResponseWriter: the header map, and what was committed to the      *)
(* client.  code = 0 until WriteHeader (or the first Write) commits the    *)
(* status line together with the headers set so far.                       *)

NoBody == [kind |-> "none"]

NewResponse == [code |-> 0, pending |-> {}, sent |-> {}, body |-> NoBody]

\* w.Header().Add / Set.
SetHeader(w, h) == [w EXCEPT !.pending = @ \cup {h}]

\* w.WriteHeader.
WriteHeader(w, code) ==
    IF w.code # 0 THEN w ELSE [w EXCEPT !.code = code, !.sent = w.pending]

\* w.Write: commits 200 when nothing was committed before.
Write(w, b) == [WriteHeader(w, 200) EXCEPT !.body = b]

ContentType == "content-type"

---------------------------------------------------------------------------
(* The handlers.  A handler takes the request r and the context c,         *)
(*   [w, srv, panic, raised, trace, log, wrote, reached, user],            *)
(* and returns the context afterwards: the response writer, the server,    *)
(* whether it is panicking, whether a panic was raised, the middleware     *)
(* and handlers entered, the log lines written, whether WriteSeries was    *)
(* invoked, whether the route's handler was invoked and with which user.   *)

Enter(c, name) == [c EXCEPT !.trace = Append(@, name)]

\* A panic starts: c.panic while it unwinds the stack, c.raised from then on.
Panic(c) == [c EXCEPT !.panic = TRUE, !.raised = TRUE]

\* httpError: the header first, then the status, then the body.
httpError(w, msg, code) ==
    Write(WriteHeader(SetHeader(w, ContentType), code),
          [kind |-> "error", error |-> msg])

\* httpResults: the status first when the results carry an error, then the
\* header, then the body.
httpResults(w, results) ==
    LET w1 == IF results.err # ""
              THEN WriteHeader(w, IF results.auth THEN 401 ELSE 500)
              ELSE w
    IN Write(SetHeader(w1, ContentType),
             [kind |-> "results", error |-> results.err])

\* The writeError closure of serveWrite: the status first, then the header.
writeError(w, msg, code) ==
    Write(SetHeader(WriteHeader(w, code), ContentType),
          [kind |-> "result", error |-> msg])

\* json.Decoder.Decode(&bp) of the request body into a zero BatchPoints.
Decode(doc) ==
    IF doc.form = "empty" THEN [err |-> "EOF", bp |-> ZeroBatch]
    ELSE UnmarshalJSON(ZeroBatch, doc)

\* A plausible slip: the privilege check is skipped.
serveWrite_NoAuthorize(r, c, user) ==
    LET d == Decode(r.doc)
        bp == d.bp
    IN IF d.err = "EOF" THEN [c EXCEPT !.w = WriteHeader(@, 200)]
       ELSE IF d.err # "" THEN [c EXCEPT !.w = writeError(@, d.err, 500)]
       ELSE IF bp.Database = ""
            THEN [c EXCEPT !.w = writeError(@, "database is required", 500)]
       ELSE IF ~DatabaseExists(c.srv, bp.Database)
            THEN [c EXCEPT !.w = writeError(@, "database not found", 404)]
       ELSE IF r.fault THEN Panic([c EXCEPT !.wrote = TRUE])
       ELSE LET ws == WriteSeries(c.srv, bp.Database, NormalizeBatchPoints(bp))
            IN IF ws.err # ""
               THEN [c EXCEPT !.wrote = TRUE, !.w = writeError(@, ws.err, 500)]
               ELSE [c EXCEPT !.wrote = TRUE, !.srv = ws.srv]

\* Handler.serveWrite.
serveWrite(r, c, user) ==
    LET d == Decode(r.doc)
        bp == d.bp
    IN IF d.err = "EOF" THEN [c EXCEPT !.w = WriteHeader(@, 200)]
       ELSE IF d.err # "" THEN [c EXCEPT !.w = writeError(@, d.err, 500)]
       ELSE IF bp.Database = ""
            THEN [c EXCEPT !.w = writeError(@, "database is required", 500)]
       ELSE IF ~DatabaseExists(c.srv, bp.Database)
            THEN [c EXCEPT !.w = writeError(@, "database not found", 404)]
       ELSE IF requireAuthentication /\ ~Authorize(c.srv, user, bp.Database)
            THEN IF user = Nil
                 THEN Panic(c)  \* user.Name of a nil user
                 ELSE [c EXCEPT !.w = writeError(@, "user is not authorized to write to database", 401)]
       ELSE LET points == NormalizeBatchPoints(bp)
            IN IF r.fault THEN Panic([c EXCEPT !.wrote = TRUE])
               ELSE LET ws == WriteSeries(c.srv, bp.Database, points)
                    IN IF ws.err # ""
                       THEN [c EXCEPT !.wrote = TRUE, !.w = writeError(@, ws.err, 500)]
                       ELSE [c EXCEPT !.wrote = TRUE, !.srv = ws.srv]

\* Handler.serveQuery.  The parser and Server.ExecuteQuery are outside the
\* handler: r.q is what they make of the query.
serveQuery(r, c, user) ==
    IF r.q = "parse" THEN [c EXCEPT !.w = httpError(@, "error parsing query", 400)]
    ELSE IF r.fault THEN Panic(c)
    ELSE LET results ==
                 CASE r.q = "ok"      -> [err |-> "", auth |-> FALSE]
                   [] r.q = "err"     -> [err |-> "measurement not found", auth |-> FALSE]
                   [] r.q = "autherr" -> [err |-> "not authorized", auth |-> TRUE]
         IN [c EXCEPT !.w = httpResults(@, results)]

\* Handler.serveProcessContinuousQueries.
serveProcessContinuousQueries(r, c, user) ==
    IF r.fault THEN Panic(c)
    ELSE IF r.q = "err" THEN [c EXCEPT !.w = httpError(@, "continuous queries failed", 500)]
    ELSE [c EXCEPT !.w = WriteHeader(@, 202)]

\* Handler.serveMetastore.
serveMetastore(r, c) ==
    LET w1 == SetHeader(SetHeader(c.w, "Content-Type"), "Content-Disposition")
    IN IF r.fault THEN Panic([c EXCEPT !.w = w1])
       ELSE IF r.q = "err" THEN [c EXCEPT !.w = httpError(w1, "copy failed", 500)]
       ELSE [c EXCEPT !.w = Write(w1, [kind |-> "meta"])]

\* Handler.serveStatus.
serveStatus(r, c) ==
    LET w1 == SetHeader(c.w, ContentType)
    IN IF r.fault THEN Panic([c EXCEPT !.w = w1])
       ELSE [c EXCEPT !.w = Write(w1, [kind |-> "status"])]

\* Handler.servePing.
servePing(r, c) == [c EXCEPT !.w = WriteHeader(@, 204)]

\* Handler.serveDataNodes.
serveDataNodes(r, c) ==
    IF r.fault THEN Panic(c)
    ELSE [c EXCEPT !.w = Write(SetHeader(@, ContentType),
                               [kind |-> "nodes", nodes |-> c.srv.dataNodes])]

\* A plausible slip: the ErrDataNodeExists branch is lost, a duplicate is
\* answered like any other error.
serveCreateDataNode_NoConflict(r, c) ==
    IF r.decode # "ok" THEN [c EXCEPT !.w = httpError(@, "json", 400)]
    ELSE IF r.url = "%" THEN [c EXCEPT !.w = httpError(@, "invalid data node url", 400)]
    ELSE IF r.fault THEN Panic(c)
    ELSE LET cr == CreateDataNode(c.srv, r.url)
         IN IF cr.err # "" THEN [c EXCEPT !.w = httpError(@, cr.err, 500)]
            ELSE LET node == CHOOSE n \in DataNodeByURL(cr.srv, r.url) : TRUE
                     rp == CreateReplica(cr.srv, node.id, r.brokerFail)
                 IN IF rp.err # ""
                    THEN [c EXCEPT !.srv = cr.srv, !.w = httpError(@, rp.err, 502)]
                    ELSE [c EXCEPT !.srv = rp.srv,
                             !.w = Write(SetHeader(WriteHeader(@, 201), ContentType),
                                         [kind |-> "node", node |-> node])]

\* A plausible slip (or repair): the registration is undone when the broker
\* does not create the replica.
serveCreateDataNode_Rollback(r, c) ==
    IF r.decode # "ok" THEN [c EXCEPT !.w = httpError(@, "json", 400)]
    ELSE IF r.url = "%" THEN [c EXCEPT !.w = httpError(@, "invalid data node url", 400)]
    ELSE IF r.fault THEN Panic(c)
    ELSE LET cr == CreateDataNode(c.srv, r.url)
         IN IF cr.err = "data node exists"
            THEN [c EXCEPT !.w = httpError(@, cr.err, 409)]
            ELSE IF cr.err # "" THEN [c EXCEPT !.w = httpError(@, cr.err, 500)]
            ELSE LET node == CHOOSE n \in DataNodeByURL(cr.srv, r.url) : TRUE
                     rp == CreateReplica(cr.srv, node.id, r.brokerFail)
                 IN IF rp.err # ""
                    THEN [c EXCEPT !.w = httpError(@, rp.err, 502)]
                    ELSE [c EXCEPT !.srv = rp.srv,
                             !.w = Write(SetHeader(WriteHeader(@, 201), ContentType),
                                         [kind |-> "node", node |-> node])]

\* Handler.serveCreateDataNode.  "%" stands for a URL url.Parse rejects.
serveCreateDataNode(r, c) ==
    IF r.decode # "ok" THEN [c EXCEPT !.w = httpError(@, "json", 400)]
    ELSE IF r.url = "%" THEN [c EXCEPT !.w = httpError(@, "invalid data node url", 400)]
    ELSE IF r.fault THEN Panic(c)
    ELSE LET cr == CreateDataNode(c.srv, r.url)
         IN IF cr.err = "data node exists"
            THEN [c EXCEPT !.w = httpError(@, cr.err, 409)]
            ELSE IF cr.err # "" THEN [c EXCEPT !.w = httpError(@, cr.err, 500)]
            ELSE LET node == CHOOSE n \in DataNodeByURL(cr.srv, r.url) : TRUE
                     rp == CreateReplica(cr.srv, node.id, r.brokerFail)
                 IN IF rp.err # ""
                    THEN [c EXCEPT !.srv = cr.srv, !.w = httpError(@, rp.err, 502)]
                    ELSE [c EXCEPT !.srv = rp.srv,
                             !.w = Write(SetHeader(WriteHeader(@, 201), ContentType),
                                         [kind |-> "node", node |-> node])]

\* Handler.serveDeleteDataNode.  An id of -1 stands for one ParseUint rejects.
serveDeleteDataNode(r, c) ==
    IF r.id < 0 THEN [c EXCEPT !.w = httpError(@, "invalid node id", 400)]
    ELSE IF r.fault THEN Panic(c)
    ELSE LET dr == DeleteDataNode(c.srv, r.id)
         IN IF dr.err # ""
            THEN [c EXCEPT !.w = httpError(@, dr.err, 404)]
            ELSE [c EXCEPT !.srv = dr.srv, !.w = WriteHeader(@, 204)]

---------------------------------------------------------------------------
(* The filters, and the chain NewHandler builds for every route.           *)

\* A plausible slip: the Basic Authentication header is looked at first.
parseCredentials_BasicFirst(r) ==
    IF r.cred.basic.ok
    THEN [err |-> "", username |-> r.cred.basic.u, password |-> r.cred.basic.p]
    ELSE IF r.cred.u # "" /\ r.cred.p # ""
         THEN [err |-> "", username |-> r.cred.u, password |-> r.cred.p]
         ELSE [err |-> "unable to parse Basic Auth credentials",
               username |-> "", password |-> ""]

\* parseCredentials: the URL parameters u and p when both are set, else the
\* Basic Authentication header.
parseCredentials(r) ==
    IF r.cred.u # "" /\ r.cred.p # ""
    THEN [err |-> "", username |-> r.cred.u, password |-> r.cred.p]
    ELSE IF r.cred.basic.ok
         THEN [err |-> "", username |-> r.cred.basic.u, password |-> r.cred.basic.p]
         ELSE [err |-> "unable to parse Basic Auth credentials",
               username |-> "", password |-> ""]

\* The handler funcs that take a user: NewHandler wraps them in authenticate.
AuthenticatedRoutes == {"query", "write", "process_continuous_queries"}

\* The inner handler func of an authenticated route, invoked with the user.
inner(r, c, user) ==
    LET c1 == [Enter(c, r.route) EXCEPT !.reached = TRUE, !.user = user]
    IN CASE r.route = "query" -> serveQuery(r, c1, user)
         [] r.route = "write" -> serveWrite(r, c1, user)
         [] r.route = "process_continuous_queries" ->
                serveProcessContinuousQueries(r, c1, user)

\* A plausible slip: the exception for a system without users is lost.
authenticate_NoBootstrap(r, c0) ==
    LET cr == parseCredentials(r)
        a == Authenticate(c0.srv, cr.username, cr.password)
        err == IF ~requireAuthentication THEN ""
               ELSE IF cr.err # "" THEN cr.err
               ELSE IF cr.username = "" THEN "username required"
               ELSE a.err
    IN IF err # ""
       THEN [Enter(c0, "authenticate") EXCEPT !.w = httpError(@, err, 401)]
       ELSE inner(r, Enter(c0, "authenticate"),
                  IF requireAuthentication THEN a.user ELSE Nil)

\* authenticate: the inner handler is invoked with a nil user when
\* authentication is not required or no user exists, with the authenticated
\* user when the credentials parse and Server.Authenticate accepts them, and
\* not at all (401) otherwise.
authenticate(r, c0) ==
    LET checked == requireAuthentication /\ UserCount(c0.srv) > 0
        cr == parseCredentials(r)
        a == Authenticate(c0.srv, cr.username, cr.password)
        err == IF ~checked THEN ""
               ELSE IF cr.err # "" THEN cr.err
               ELSE IF cr.username = "" THEN "username required"
               ELSE a.err
    IN IF err # ""
       THEN [Enter(c0, "authenticate") EXCEPT !.w = httpError(@, err, 401)]
       ELSE inner(r, Enter(c0, "authenticate"), IF checked THEN a.user ELSE Nil)

\* The handler funcs that take no user are served as they are.
plain(r, c) ==
    LET c1 == [Enter(c, r.route) EXCEPT !.reached = TRUE]
    IN CASE r.route = "data_nodes_index"  -> serveDataNodes(r, c1)
         [] r.route = "data_nodes_create" -> serveCreateDataNode(r, c1)
         [] r.route = "data_nodes_delete" -> serveDeleteDataNode(r, c1)
         [] r.route = "metastore"         -> serveMetastore(r, c1)
         [] r.route = "status"            -> serveStatus(r, c1)
         [] r.route = "ping"              -> servePing(r, c1)

\* The loop of NewHandler over the routes: the innermost handler of a route
\* is authenticate(hf) when hf takes a user, hf itself otherwise.
routeHandler(r, c) ==
    IF r.route \in AuthenticatedRoutes THEN authenticate(r, c) ELSE plain(r, c)

\* gzipFilter.  The deferred gz.Close() flushes to the underlying writer,
\* which commits the status line if nothing has.
gzipFilter(r, c0) ==
    [routeHandler(r, [Enter(c0, "gzipFilter") EXCEPT
                         !.w = IF r.hdr.gzip THEN SetHeader(@, "Content-Encoding")
                               ELSE @])
        EXCEPT !.w = IF r.hdr.gzip THEN WriteHeader(@, 200) ELSE @]

\* versionHeader.
versionHeader(r, c0) ==
    gzipFilter(r, [Enter(c0, "versionHeader") EXCEPT
                      !.w = SetHeader(@, "X-Influxdb-Version")])

\* cors.
CorsHeaders ==
    {"Access-Control-Allow-Origin", "Access-Control-Allow-Methods",
     "Access-Control-Allow-Headers"}

cors(r, c0) ==
    LET c1 == [Enter(c0, "cors") EXCEPT
                  !.w.pending = IF r.hdr.origin # "" THEN @ \cup CorsHeaders ELSE @]
    IN IF r.method = "OPTIONS" THEN c1 ELSE versionHeader(r, c1)

\* requestID.
requestID(r, c0) ==
    cors(r, [Enter(c0, "requestID") EXCEPT !.w = SetHeader(@, "Request-Id")])

\* The log line logging writes once the inner handler has returned; a panic
\* passes it by.
logLine(c) == IF c.panic THEN c ELSE [c EXCEPT !.log = Append(@, "access")]

\* logging.
logging(r, c0) == logLine(requestID(r, Enter(c0, "logging")))

\* recovery.  recover() is called after inner.ServeHTTP has returned, not in
\* a deferred function: when the inner handler panics the call is never
\* reached and the panic goes on to the caller; when it returns, recover()
\* is nil.
recovery(r, c0) == logging(r, Enter(c0, "recovery"))

NewContext(s) ==
    [w |-> NewResponse, srv |-> s, panic |-> FALSE, raised |-> FALSE,
     trace |-> <<>>, log |-> <<>>, wrote |-> FALSE, reached |-> FALSE,
     user |-> Nil]

\* The method each route is registered under (h.mux.Add(r.method, ...)).
Methods ==
    [query |-> "GET", write |-> "POST", data_nodes_index |-> "GET",
     data_nodes_create |-> "POST", data_nodes_delete |-> "DELETE",
     metastore |-> "GET", status |-> "GET", ping |-> "GET",
     process_continuous_queries |-> "POST"]

\* The mux finds no handler registered for the path under the request's
\* method: it answers itself, no handler of the route is invoked.
muxMiss(c) == [c EXCEPT !.w = Write(WriteHeader(SetHeader(@, "Allow"), 405),
                                    [kind |-> "text"])]

\* Handler.ServeHTTP: the mux hands the request to the chain registered for
\* its method and path.
ServeHTTP(r, s) ==
    IF r.method = Methods[r.route] THEN recovery(r, NewContext(s))
    ELSE muxMiss(NewContext(s))

\* What the client receives: the committed status (200 when the handler
\* returned without committing one), or 0 when the panic left the handler and
\* no status was committed.
ClientStatus(c) ==
    IF c.w.code # 0 THEN c.w.code ELSE IF c.panic THEN 0 ELSE 200

---------------------------------------------------------------------------
(* The requests the model serves.                                          *)

DBNames == {"db1"}

NoBasic == [ok |-> FALSE, u |-> "", p |-> ""]

Basic(u, p) == [ok |-> TRUE, u |-> u, p |-> p]

NoCred == [u |-> "", p |-> "", basic |-> NoBasic]

\* Credentials in the URL, in the Basic header, in both, wrong and missing.
CredCases ==
    { NoCred,
      [u |-> "alice", p |-> "pa", basic |-> NoBasic],
      [u |-> "alice", p |-> "pb", basic |-> NoBasic],
      [u |-> "",      p |-> "",   basic |-> Basic("alice", "pa")],
      [u |-> "",      p |-> "",   basic |-> Basic("bob", "pb")],
      [u |-> "",      p |-> "",   basic |-> Basic("", "pa")],
      [u |-> "alice", p |-> "pa", basic |-> Basic("bob", "pb")],
      [u |-> "alice", p |-> "pb", basic |-> Basic("bob", "pb")],
      [u |-> "alice", p |-> "",   basic |-> Basic("bob", "pb")] }

\* The credentials sent to the routes that take no user.
FewCreds ==
    { NoCred,
      [u |-> "alice", p |-> "pa", basic |-> NoBasic] }

NoHdr == [origin |-> "", gzip |-> FALSE]

HdrCases == {NoHdr, [origin |-> "http://o", gzip |-> TRUE]}

SamplePoint ==
    [Name |-> "cpu", Tags |-> EmptyMap, Timestamp |-> ZeroTime,
     Precision |-> "", Values |-> {"v"}]

EmptyDoc ==
    [form |-> "empty", database |-> "", retentionPolicy |-> "",
     tags |-> EmptyMap, ts |-> [kind |-> "absent", n |-> 0, t |-> ZeroTime],
     precision |-> "", points |-> <<>>]

SampleDoc(db, pts) ==
    [form |-> "object", database |-> db, retentionPolicy |-> "",
     tags |-> [k \in {"host"} |-> "a"],
     ts |-> [kind |-> "int", n |-> 1700000000, t |-> ZeroTime],
     precision |-> "s", points |-> pts]

\* The bodies posted to /write: empty, malformed, without a database, for an
\* existing and for an unknown database, and with a point without a name.
WriteDocs ==
    { EmptyDoc,
      [EmptyDoc EXCEPT !.form = "malformed"],
      SampleDoc("", <<SamplePoint>>),
      SampleDoc("db1", <<SamplePoint>>),
      SampleDoc("nope", <<SamplePoint>>),
      SampleDoc("db1", <<[SamplePoint EXCEPT !.Name = ""]>>) }

NodeURLs == {"http://a:8086", "http://b:8086"}

\* A request of a route with every other field at its default.
BaseReq(route) ==
    [route |-> route, method |-> Methods[route], cred |-> NoCred, hdr |-> NoHdr,
     doc |-> EmptyDoc, q |-> "ok", decode |-> "ok", url |-> "", id |-> 0,
     fault |-> FALSE, brokerFail |-> FALSE]

\* The bodies and parameters of a route's requests.
Bodies(route) ==
    CASE route = "write" -> {[BaseReq(route) EXCEPT !.doc = d] : d \in WriteDocs}
      [] route = "query" ->
             {[BaseReq(route) EXCEPT !.q = q] : q \in {"parse", "ok", "err", "autherr"}}
      [] route \in {"process_continuous_queries", "metastore"} ->
             {[BaseReq(route) EXCEPT !.q = q] : q \in {"ok", "err"}}
      [] route = "data_nodes_create" ->
             {[BaseReq(route) EXCEPT !.decode = "err"]}
             \cup {[BaseReq(route) EXCEPT !.url = u, !.brokerFail = b] :
                      u \in NodeURLs \cup {"", "%"}, b \in BOOLEAN}
      [] route = "data_nodes_delete" ->
             {[BaseReq(route) EXCEPT !.id = i] : i \in -1..MaxNodeID + 1}
      [] OTHER -> {BaseReq(route)}

\* The requests of a route: every body with every credential; and, without
\* credentials, with the Origin and Accept-Encoding headers set, with the
\* server call of the handler panicking, and as an OPTIONS request to the
\* route's path.
Requests(route) ==
    LET creds == IF route \in AuthenticatedRoutes THEN CredCases ELSE FewCreds
    IN {[b EXCEPT !.cred = cr] : b \in Bodies(route), cr \in creds}
       \cup {[b EXCEPT !.hdr = h] : b \in Bodies(route), h \in HdrCases}
       \cup {[b EXCEPT !.fault = TRUE] : b \in Bodies(route)}
       \cup {[BaseReq(route) EXCEPT !.method = "OPTIONS", !.hdr = h] : h \in HdrCases}

NoReq == [BaseReq("ping") EXCEPT !.route = "none", !.method = ""]

NoResp ==
    [status |-> 0, w |-> NewResponse, panic |-> FALSE, raised |-> FALSE,
     trace |-> <<>>, log |-> <<>>, wrote |-> FALSE, reached |-> FALSE,
     user |-> Nil]

---------------------------------------------------------------------------
(* The state machine of the handler.                                       *)

\* The server as a record.
Srv ==
    [databases |-> databases, users |-> users, dataNodes |-> dataNodes,
     nextID |-> nextID, replicas |-> replicas, stored |-> stored]

IdleOthers ==
    /\ nbp = ZeroBatch /\ npoints = <<>> /\ npc = "off"
    /\ ubody = EmptyDoc /\ urecv = ZeroBatch /\ ubp = ZeroBatch
    /\ uerr = "" /\ upc = "off"

\* After NewHandler: an empty server, no request in flight.
Init ==
    /\ requireAuthentication \in BOOLEAN
    /\ databases = {}
    /\ users = [n \in {} |-> [admin |-> FALSE, write |-> {}]]
    /\ dataNodes = {}
    /\ nextID = 1
    /\ replicas = {}
    /\ stored = {}
    /\ req = NoReq
    /\ resp = NoResp
    /\ prev = Srv
    /\ IdleOthers

\* The state once request r has been served with outcome c.
Served(r, c) ==
    /\ databases' = c.srv.databases
    /\ users' = c.srv.users
    /\ dataNodes' = c.srv.dataNodes
    /\ nextID' = c.srv.nextID
    /\ replicas' = c.srv.replicas
    /\ stored' = c.srv.stored
    /\ resp' = [status |-> ClientStatus(c), w |-> c.w, panic |-> c.panic,
                raised |-> c.raised, trace |-> c.trace, log |-> c.log,
                wrote |-> c.wrote, reached |-> c.reached, user |-> c.user]
    /\ req' = r
    /\ prev' = Srv
    /\ UNCHANGED <<requireAuthentication, normVars, unmVars>>

\* Handler.ServeHTTP serves request r to its end.
Serve(r) == Served(r, ServeHTTP(r, Srv))

Query ==
    /\ req = NoReq
    /\ \E r \in Requests("query") : Serve(r)

WriteRequest ==
    /\ req = NoReq
    /\ \E r \in Requests("write") : Serve(r)

DataNodesIndex ==
    /\ req = NoReq
    /\ \E r \in Requests("data_nodes_index") : Serve(r)

DataNodesCreate ==
    /\ req = NoReq
    /\ nextID <= MaxNodeID
    /\ \E r \in Requests("data_nodes_create") : Serve(r)

DataNodesDelete ==
    /\ req = NoReq
    /\ \E r \in Requests("data_nodes_delete") : Serve(r)

Metastore ==
    /\ req = NoReq
    /\ \E r \in Requests("metastore") : Serve(r)

Status ==
    /\ req = NoReq
    /\ \E r \in Requests("status") : Serve(r)

Ping ==
    /\ req = NoReq
    /\ \E r \in Requests("ping") : Serve(r)

ProcessContinuousQueries ==
    /\ req = NoReq
    /\ \E r \in Requests("process_continuous_queries") : Serve(r)

\* The response has gone out; the handler is idle again.
Done ==
    /\ req # NoReq
    /\ req' = NoReq
    /\ resp' = NoResp
    /\ prev' = Srv
    /\ UNCHANGED <<requireAuthentication, serverVars, normVars, unmVars>>

\* The metastore applies "create database".
CreateDatabase ==
    /\ req = NoReq
    /\ \E db \in DBNames \ databases : databases' = databases \cup {db}
    /\ prev' = [Srv EXCEPT !.databases = databases']
    /\ UNCHANGED <<requireAuthentication, users, dataNodes, nextID, replicas,
                   stored, req, resp, normVars, unmVars>>

\* The metastore applies "create user": alice is created a cluster admin,
\* bob an ordinary user.
CreateUser ==
    /\ req = NoReq
    /\ \E n \in UserNames \ DOMAIN users :
          users' = [x \in (DOMAIN users) \cup {n} |->
                       IF x = n THEN [admin |-> (n = "alice"), write |-> {}]
                       ELSE users[x]]
    /\ prev' = [Srv EXCEPT !.users = users']
    /\ UNCHANGED <<requireAuthentication, databases, dataNodes, nextID, replicas,
                   stored, req, resp, normVars, unmVars>>

\* The metastore applies "set privilege": write on a database, for a user
\* who is no cluster admin.
SetPrivilege ==
    /\ req = NoReq
    /\ \E n \in DOMAIN users, db \in databases :
          /\ ~users[n].admin
          /\ db \notin users[n].write
          /\ users' = [users EXCEPT ![n].write = @ \cup {db}]
    /\ prev' = [Srv EXCEPT !.users = users']
    /\ UNCHANGED <<requireAuthentication, databases, dataNodes, nextID, replicas,
                   stored, req, resp, normVars, unmVars>>

Next ==
    \/ Query
    \/ WriteRequest
    \/ DataNodesIndex
    \/ DataNodesCreate
    \/ DataNodesDelete
    \/ Metastore
    \/ Status
    \/ Ping
    \/ ProcessContinuousQueries
    \/ Done
    \/ CreateDatabase
    \/ CreateUser
    \/ SetPrivilege

Spec == Init /\ [][Next]_vars

---------------------------------------------------------------------------
(* NormalizeBatchPoints on its own: a batch is drawn and normalised.       *)

TagMaps == {EmptyMap, [k \in {"host"} |-> "a"],
            [k \in {"host", "region"} |-> IF k = "host" THEN "a" ELSE "eu"]}

\* The points of a batch as decoded: with and without tags (one with an
\* empty value), timestamp and precision.
ClientPoints ==
    {[Name |-> "cpu", Tags |-> t, Timestamp |-> ts, Precision |-> pr,
      Values |-> {"v"}] :
        t \in {EmptyMap, [k \in {"host"} |-> ""], [k \in {"host"} |-> "b"]},
        ts \in {ZeroTime, Unix(20, 1500000)},
        pr \in {"", "ms"}}

RECURSIVE SeqsUpTo(_, _)
SeqsUpTo(S, n) ==
    IF n = 0 THEN {<<>>}
    ELSE LET shorter == SeqsUpTo(S, n - 1)
         IN shorter \cup {Append(q, x) : q \in {y \in shorter : Len(y) = n - 1}, x \in S}

Batches ==
    {[Points |-> ps, Database |-> "db1", RetentionPolicy |-> "", Tags |-> t,
      Timestamp |-> ts, Precision |-> pr] :
        ps \in SeqsUpTo(ClientPoints, MaxPoints), t \in TagMaps,
        ts \in {ZeroTime, Unix(10, 0)}, pr \in {"", "s"}}

\* The handler's variables while the other specifications run.
HttpIdle ==
    /\ requireAuthentication = FALSE
    /\ databases = {}
    /\ users = [n \in {} |-> [admin |-> FALSE, write |-> {}]]
    /\ dataNodes = {}
    /\ nextID = 1
    /\ replicas = {}
    /\ stored = {}
    /\ req = NoReq
    /\ resp = NoResp
    /\ prev = Srv

InitNormalize ==
    /\ HttpIdle
    /\ nbp \in Batches /\ npoints = <<>> /\ npc = "in"
    /\ ubody = EmptyDoc /\ urecv = ZeroBatch /\ ubp = ZeroBatch
    /\ uerr = "" /\ upc = "off"

\* points, err := NormalizeBatchPoints(bp)
Normalize ==
    /\ npc = "in"
    /\ npoints' = NormalizeBatchPoints(nbp)
    /\ npc' = "out"
    /\ UNCHANGED <<nbp, httpVars, unmVars>>

NextNormalize == Normalize

SpecNormalize == InitNormalize /\ [][NextNormalize]_vars

---------------------------------------------------------------------------
(* BatchPoints.UnmarshalJSON on its own: a body and a receiver are drawn   *)
(* and the body is decoded into the receiver.                              *)

\* The "timestamp" of a body: absent, an integer, an RFC 3339 string, or
\* anything else (a boolean, a string that is no time).
Timestamps ==
    {[kind |-> "absent", n |-> 0, t |-> ZeroTime],
     [kind |-> "other", n |-> 0, t |-> ZeroTime]}
    \cup {[kind |-> "int", n |-> n, t |-> ZeroTime] : n \in {0, 5, 1500, 1700000000}}
    \cup {[kind |-> "str", n |-> 0, t |-> t] : t \in {Unix(20, 1500000), Unix(1700000000, 0)}}

\* The precisions of a body; "x" is none the server knows.
Precisions == {"", "s", "ms", "x"}

JSONBodies ==
    {[EmptyDoc EXCEPT !.form = "malformed"]}
    \cup {[form |-> "object", database |-> db, retentionPolicy |-> "",
           tags |-> tg, ts |-> ts, precision |-> pr, points |-> ps] :
             db \in {"", "db1"}, tg \in {EmptyMap, [k \in {"host"} |-> "a"]},
             ts \in Timestamps, pr \in Precisions,
             ps \in SeqsUpTo({SamplePoint}, MaxPoints)}

\* The receiver before the call: the zero value, or one decoded into before.
Receivers ==
    {ZeroBatch,
     [Points |-> <<SamplePoint>>, Database |-> "old", RetentionPolicy |-> "rp",
      Tags |-> [k \in {"dc"} |-> "x"], Timestamp |-> Unix(7, 0), Precision |-> "u"]}

InitUnmarshal ==
    /\ HttpIdle
    /\ nbp = ZeroBatch /\ npoints = <<>> /\ npc = "off"
    /\ ubody \in JSONBodies /\ urecv \in Receivers /\ ubp = urecv
    /\ uerr = "" /\ upc = "in"

\* err := bp.UnmarshalJSON(b)
Unmarshal ==
    /\ upc = "in"
    /\ LET res == UnmarshalJSON(urecv, ubody)
       IN ubp' = res.bp /\ uerr' = res.err
    /\ upc' = "out"
    /\ UNCHANGED <<ubody, urecv, httpVars, normVars>>

NextUnmarshal == Unmarshal

SpecUnmarshal == InitUnmarshal /\ [][NextUnmarshal]_vars

---------------------------------------------------------------------------
(* Properties of the handler (Spec).  req is the request just served, resp *)
(* its outcome, prev the server as it was when the request arrived.        *)

\* The user holds WritePrivilege on the database: a cluster admin, or a user
\* granted write on it.
HoldsWritePrivilege(s, user, db) ==
    /\ user \in DOMAIN s.users
    /\ (s.users[user].admin \/ db \in s.users[user].write)

\* C1: serveWrite invokes Server.WriteSeries only for a decoded batch whose
\* database is non-empty and exists and, when authentication is required
\* (the flag is set and a user exists), whose user holds WritePrivilege on
\* it; otherwise nothing is written, and the response is 500 "database is
\* required" for an empty database, 404 "database not found" for an unknown
\* one, 401 for a user without the privilege.
C1_WriteOnlyWhenAuthorized ==
    req.route = "write" /\ resp.reached =>
        LET d == Decode(req.doc)
            db == d.bp.Database
            required == requireAuthentication /\ UserCount(prev) > 0
            holds == HoldsWritePrivilege(prev, resp.user, db)
        IN /\ resp.wrote =>
                 /\ d.err = "" /\ db # "" /\ db \in prev.databases
                 /\ (~required \/ holds)
           /\ ~resp.wrote => stored = prev.stored
           /\ d.err = "" /\ db = "" =>
                 /\ resp.status = 500 /\ ~resp.wrote
                 /\ resp.w.body.error = "database is required"
           /\ d.err = "" /\ db # "" /\ db \notin prev.databases =>
                 /\ resp.status = 404 /\ ~resp.wrote
                 /\ resp.w.body.error = "database not found"
           /\ d.err = "" /\ db \in prev.databases /\ required /\ ~holds =>
                 resp.status = 401 /\ ~resp.wrote

\* C1 happens: with authentication required, bob, granted write, has a batch
\* stored.
C1_Witness ==
    /\ req.route = "write" /\ requireAuthentication
    /\ resp.user = "bob" /\ resp.wrote /\ resp.status = 200
    /\ stored # prev.stored

\* The credentials of a request as the claim orders them: the URL parameters
\* u and p, then HTTP Basic.
ClaimedCredentials(r) ==
    IF r.cred.u # "" /\ r.cred.p # ""
    THEN [have |-> TRUE, username |-> r.cred.u, password |-> r.cred.p]
    ELSE [have |-> r.cred.basic.ok, username |-> r.cred.basic.u,
          password |-> r.cred.basic.p]

\* The credentials are there, name a user, and the server accepts them.
CredentialsAccepted(r, s) ==
    LET cr == ClaimedCredentials(r)
    IN /\ cr.have /\ cr.username # ""
       /\ cr.username \in DOMAIN s.users /\ cr.password = PasswordOf(cr.username)

\* C2: with authentication required and a user in the system, the inner
\* handler of an authenticated route is invoked only with the user whose
\* credentials (URL parameters first, then Basic) the server accepted;
\* otherwise the response is 401, the inner handler is not invoked and the
\* server is left as it was.
C2_AuthenticatedRoutes ==
    (/\ requireAuthentication /\ UserCount(prev) > 0
     /\ req.route \in AuthenticatedRoutes /\ req.method = Methods[req.route]) =>
        /\ resp.reached =>
              /\ CredentialsAccepted(req, prev)
              /\ resp.user = ClaimedCredentials(req).username
        /\ ~CredentialsAccepted(req, prev) =>
              /\ resp.status = 401 /\ ~resp.reached /\ ~resp.wrote
              /\ Srv = prev

\* C2 happens: alice's credentials in the URL win over bob's in the Basic
\* header.
C2_Witness ==
    /\ requireAuthentication /\ UserCount(prev) > 0
    /\ req.route \in AuthenticatedRoutes
    /\ req.cred.u = "alice" /\ req.cred.basic.ok /\ req.cred.basic.u = "bob"
    /\ "bob" \in DOMAIN prev.users
    /\ resp.reached /\ resp.user = "alice"

\* A POST /write without credentials of a valid batch for db1.
AnonymousWrite ==
    /\ req.route = "write" /\ req.cred = NoCred /\ ~req.fault
    /\ req.doc = SampleDoc("db1", <<SamplePoint>>)

AdminRoutes ==
    {"data_nodes_index", "data_nodes_create", "data_nodes_delete", "metastore"}

\* C4: with authentication enabled and a user in the system, a request to a
\* data-node route or to /metastore without the accepted credentials of a
\* cluster admin does not reach the route's handler and does not change the
\* data nodes.
C4_AdminRoutesRequireAdmin ==
    (/\ requireAuthentication /\ UserCount(prev) > 0
     /\ req.route \in AdminRoutes
     /\ ~(/\ CredentialsAccepted(req, prev)
          /\ prev.users[ClaimedCredentials(req).username].admin))
    => ~resp.reached /\ dataNodes = prev.dataNodes

\* C5: for an authenticated user without write privilege on any database,
\* the response to POST /write is the same whether or not the database named
\* exists: the run served and the run against the server that differs only
\* in having the database agree on status and body.
C5_WriteHidesExistence ==
    (/\ requireAuthentication /\ req.route = "write" /\ ~req.fault
     /\ resp.reached /\ resp.user \in DOMAIN prev.users
     /\ ~prev.users[resp.user].admin /\ prev.users[resp.user].write = {}
     /\ req.doc.form = "object"
     /\ req.doc.database \in DBNames \ prev.databases)
    => LET twin == ServeHTTP(req, [prev EXCEPT !.databases = @ \cup {req.doc.database}])
       IN ClientStatus(twin) = resp.status /\ twin.w.body = resp.w.body

\* A POST /data_nodes whose body decodes, with a URL no node is registered
\* under, served without a panic.
CreateOfNewURL ==
    /\ req.route = "data_nodes_create" /\ req.method = "POST"
    /\ req.decode = "ok" /\ ~req.fault
    /\ req.url \in NodeURLs
    /\ \A n \in prev.dataNodes : n.url # req.url

\* What the lifecycle says of the requests other than the first POST of a
\* URL: the repeated POST, GET and the two DELETEs.
LifecycleRest ==
    /\ (/\ req.route = "data_nodes_create" /\ req.method = "POST"
        /\ req.decode = "ok" /\ ~req.fault
        /\ \E n \in prev.dataNodes : n.url = req.url)
       => resp.status = 409 /\ Srv = prev
    /\ req.route = "data_nodes_index" /\ req.method = "GET" /\ ~req.fault
       => /\ resp.status = 200
          /\ resp.w.body = [kind |-> "nodes", nodes |-> prev.dataNodes]
          /\ Srv = prev
    /\ (/\ req.route = "data_nodes_delete" /\ req.method = "DELETE" /\ ~req.fault
        /\ \E n \in prev.dataNodes : n.id = req.id)
       => /\ resp.status = 204
          /\ dataNodes = {n \in prev.dataNodes : n.id # req.id}
    /\ (/\ req.route = "data_nodes_delete" /\ req.method = "DELETE"
        /\ ~req.fault /\ req.id >= 0
        /\ \A n \in prev.dataNodes : n.id # req.id)
       => resp.status = 404 /\ Srv = prev

\* The node a POST of a new URL registers: the next id, under the URL.
NewNode == [id |-> prev.nextID, url |-> req.url]

\* C6 as claimed: POST /data_nodes with a new URL returns 201 with the
\* assigned id, a repeated POST 409, GET lists the registered nodes, DELETE
\* of a registered id returns 204 and of any other 404.
C6_LifecycleAsClaimed ==
    /\ CreateOfNewURL =>
          /\ resp.status = 201
          /\ resp.w.body = [kind |-> "node", node |-> NewNode]
    /\ LifecycleRest

\* C6 as amended: POST /data_nodes with a new URL registers the node under
\* the next id and returns 201 with it when the broker creates the replica,
\* 502 when the broker does not; the rest as claimed.
C6_Lifecycle ==
    /\ CreateOfNewURL =>
          /\ dataNodes = prev.dataNodes \cup {NewNode}
          /\ nextID = prev.nextID + 1
          /\ IF req.brokerFail
             THEN resp.status = 502 /\ replicas = prev.replicas
             ELSE /\ resp.status = 201
                  /\ resp.w.body = [kind |-> "node", node |-> NewNode]
                  /\ replicas = prev.replicas \cup {NewNode.id}
    /\ LifecycleRest

\* C6 happens: the DELETE of a node deleted before, while another is still
\* registered, is answered 404.
C6_Witness ==
    /\ req.route = "data_nodes_delete" /\ resp.status = 404
    /\ req.id >= 1 /\ req.id < prev.nextID
    /\ prev.dataNodes # {}

\* C7: when a handler panics, the recovery wrapper stops the panic, logs it,
\* and the client receives 500.
C7_RecoveryCatchesPanic ==
    resp.raised =>
        /\ ~resp.panic
        /\ resp.status = 500
        /\ \E i \in 1..Len(resp.log) : resp.log[i] = "panic"

---------------------------------------------------------------------------
(* Properties of NormalizeBatchPoints (SpecNormalize).                     *)

\* The precision NormalizeBatchPoints applies to point p of batch bp.
AppliedPrecision(bp, p) ==
    IF p.Precision = "" THEN bp.Precision ELSE p.Precision

\* C8: a batch tag is copied onto a point only when the point has no tag of
\* that key; every tag the point has keeps the point's value, the empty
\* string included, and a point without tags receives all batch tags.
C8_PointTagsTakePrecedence ==
    npc = "out" =>
        \A i \in 1..Len(nbp.Points) :
            LET p == nbp.Points[i]
                out == npoints[i]
            IN /\ DOMAIN out.Tags = DOMAIN p.Tags \cup DOMAIN nbp.Tags
               /\ \A k \in DOMAIN out.Tags :
                     out.Tags[k] = IF k \in DOMAIN p.Tags THEN p.Tags[k]
                                   ELSE nbp.Tags[k]

\* C9: NormalizeBatchPoints returns as many points as the batch has, each
\* with a non-zero timestamp: its own (at the precision applied) when it has
\* one, else the batch's, else the time of the call.
C9_NonZeroTimestamps ==
    npc = "out" =>
        /\ Len(npoints) = Len(nbp.Points)
        /\ \A i \in 1..Len(nbp.Points) :
              LET p == nbp.Points[i]
                  own == ~IsZero(p.Timestamp)
              IN /\ ~IsZero(npoints[i].Timestamp)
                 /\ own => npoints[i].Timestamp =
                              SetPrecision(p.Timestamp, AppliedPrecision(nbp, p))
                 /\ ~own /\ ~IsZero(nbp.Timestamp) =>
                       npoints[i].Timestamp =
                           SetPrecision(nbp.Timestamp, AppliedPrecision(nbp, p))

---------------------------------------------------------------------------
(* Properties of BatchPoints.UnmarshalJSON (SpecUnmarshal).                *)

\* C10: the integer form of "timestamp" is tried first and the string form
\* only when that fails: an integer N at precision "s" decodes to N seconds
\* (N * 10^9 nanoseconds) and at any known precision to EpochToTime of it,
\* an absent timestamp to the zero time, an RFC 3339 string to that instant
\* at the precision; when neither form decodes an error is returned and the
\* receiver is left as it was.
C10_EpochThenString ==
    upc = "out" =>
        LET b == ubody
            obj == b.form = "object"
            epochFails == ~obj \/ b.ts.kind \notin {"absent", "int"}
                          \/ (b.ts.kind = "int" /\ b.precision \notin {"", "s", "ms"})
            stringFails == ~obj \/ b.ts.kind \notin {"absent", "str"}
        IN /\ obj /\ b.ts.kind = "int" /\ b.precision = "s" =>
                 uerr = "" /\ ubp.Timestamp = Unix(b.ts.n, 0)
           /\ obj /\ b.ts.kind = "int" /\ ~epochFails =>
                 uerr = "" /\ ubp.Timestamp = EpochToTime(b.ts.n, b.precision).t
           /\ obj /\ b.ts.kind = "absent" =>
                 uerr = "" /\ ubp.Timestamp = ZeroTime
           /\ obj /\ b.ts.kind = "str" =>
                 uerr = "" /\ ubp.Timestamp = SetPrecision(b.ts.t, b.precision)
           /\ uerr = "" =>
                 /\ ubp.Database = b.database /\ ubp.Points = b.points
                 /\ ubp.Tags = b.tags /\ ubp.Precision = b.precision
                 /\ ubp.RetentionPolicy = b.retentionPolicy
           /\ (epochFails /\ stringFails) <=> uerr # ""
           /\ uerr # "" => ubp = urecv

\* C10 happens: 1700000000 at precision "s" is decoded over a receiver that
\* held another batch.
C10_Witness ==
    /\ upc = "out" /\ ubody.form = "object"
    /\ ubody.ts.kind = "int" /\ ubody.ts.n = 1700000000 /\ ubody.precision = "s"
    /\ urecv # ZeroBatch
    /\ uerr = "" /\ ubp.Timestamp = Unix(1700000000, 0)

---------------------------------------------------------------------------
(* Properties of the responses (Spec).                                     *)

\* A GET /query whose query parsed and was executed.
QueryExecuted ==
    /\ req.route = "query" /\ resp.reached
    /\ req.q # "parse" /\ ~req.fault

\* C11: on GET /query with a parseable query, a statement error that is not
\* an authorization error is reported in the results body with status 200,
\* and the status is 401 exactly when the results carry an authorization
\* error.
C11_QueryStatus ==
    QueryExecuted =>
        /\ req.q = "err" =>
              /\ resp.status = 200
              /\ resp.w.body = [kind |-> "results", error |-> "measurement not found"]
        /\ resp.status = 401 <=> req.q = "autherr"

\* The bodies that are JSON documents.
JSONKinds == {"error", "results", "result", "nodes", "node", "status"}

\* C12: every response that carries a JSON body is sent with the header
\* content-type among the headers committed with the status line.
C12_JSONContentType ==
    (resp # NoResp /\ ~resp.panic /\ resp.w.body.kind \in JSONKinds)
        => ContentType \in resp.w.sent

\* A POST /write that reached Server.WriteSeries with a batch holding a point
\* that fails validation.
InvalidBatchWritten ==
    /\ req.route = "write" /\ resp.wrote /\ ~req.fault
    /\ ValidatePoints(NormalizeBatchPoints(Decode(req.doc).bp)) # ""

\* C13: a POST /write whose batch fails validation is rejected as a whole,
\* nothing of it stored, with a 4xx status.
C13_ValidationIs4xx ==
    InvalidBatchWritten =>
        /\ stored = prev.stored
        /\ resp.status >= 400 /\ resp.status < 500

\* The middleware entered before the handler, outermost first.
Chain ==
    <<"recovery", "logging", "requestID", "cors", "versionHeader",
      "gzipFilter", "authenticate">>

\* The first n elements of a sequence.
Prefix(sq, n) == SubSeq(sq, 1, n)

\* The headers set by the middleware outside authenticate for the request.
OuterHeaders ==
    {"Request-Id", "X-Influxdb-Version"}
        \cup (IF req.hdr.origin # "" THEN CorsHeaders ELSE {})

\* C14: a request to a registered route passes recovery, logging, request-id,
\* CORS, version header, gzip, auth and the handler in that order; a request
\* that auth rejects with 401 carries the Request-Id, CORS and version
\* headers; an OPTIONS request is answered without invoking version header,
\* gzip, auth or the handler.
C14_MiddlewareOrder ==
    req # NoReq =>
        /\ req.method = Methods[req.route] =>
              /\ Len(resp.trace) >= Len(Chain)
              /\ Prefix(resp.trace, Len(Chain)) = Chain
              /\ resp.reached => resp.trace = Chain \o <<req.route>>
              /\ ~resp.reached => resp.trace = Chain /\ resp.status = 401
              /\ resp.status = 401 /\ ~resp.reached => OuterHeaders \subseteq resp.w.sent
        /\ req.method = "OPTIONS" =>
              /\ ~resp.reached
              /\ \A i \in 1..Len(resp.trace) :
                    resp.trace[i] \notin {"versionHeader", "gzipFilter", "authenticate",
                                          req.route}

\* The nodes registered in the server before the request for which the
\* broker holds no replica.
Orphans == {n \in prev.dataNodes : n.id \notin prev.replicas}

\* C15: POST /data_nodes is not atomic.  When CreateDataNode succeeds and
\* the broker's CreateReplica fails the response is 502 and the node stays
\* registered without a replica; such a node is listed by GET /data_nodes, a
\* repeated POST of its URL returns 409, and no request creates its replica
\* while it stays registered.
C15_CreateNotAtomic ==
    /\ CreateOfNewURL /\ req.brokerFail =>
          /\ resp.status = 502
          /\ NewNode \in dataNodes /\ NewNode.id \notin replicas
    /\ \A n \in Orphans :
          /\ req.route = "data_nodes_index" /\ req.method = "GET" /\ ~req.fault
                => resp.w.body.kind = "nodes" /\ n \in resp.w.body.nodes
          /\ (/\ req.route = "data_nodes_create" /\ req.method = "POST"
              /\ req.decode = "ok" /\ ~req.fault /\ req.url = n.url)
                => resp.status = 409 /\ n \in dataNodes
          /\ n \in dataNodes => n.id \notin replicas

\* C15 happens: the POST of a URL whose earlier POST got 502 is repeated with
\* the broker working, and is answered 409 with the replica still missing.
C15_Witness ==
    /\ req.route = "data_nodes_create" /\ req.method = "POST"
    /\ req.decode = "ok" /\ ~req.fault /\ ~req.brokerFail
    /\ \E n \in Orphans : n.url = req.url /\ n.id \notin replicas
    /\ resp.status = 409

===========================================================================
